---- MODULE Spec2Model ----
(***************************************************************************)
(* Model of the chat client of frontend/src/App.js: the App component's    *)
(* state, the asynchronous joinChat, the four WebSocket handlers installed *)
(* by connectWebSocket, and sendMessage.                                   *)
(*                                                                         *)
(* Every event handler runs to completion (single JavaScript thread) and   *)
(* the re-render that its state updates cause is part of the same step.    *)
(* An await in joinChat ends a step; the continuation is a later step.     *)
(* Strings that the code trims are sequences of one-character strings.     *)
(***************************************************************************)
EXTENDS Integers, Sequences, FiniteSets, TLC

(***************************************************************************)
(* Bounds of the model.                                                    *)
(***************************************************************************)
MaxJoins == 2     \* joinChat invocations started in one run
MaxFrames == 3    \* inbound frames delivered in one run
MaxSent == 1      \* calls of socket.send in one run

(***************************************************************************)
(* Input samples.                                                          *)
(***************************************************************************)
\* Texts typed into the username field and the message field.
SampleStrings == { <<>>, <<" ">>, <<" ", "a", " ">> }

\* Message records as the server sends them (id, username, content, timestamp).
M1 == [id |-> 1, username |-> "bob", content |-> "hi", timestamp |-> "t1"]
M2 == [id |-> 2, username |-> "alice", content |-> "yo", timestamp |-> "t2"]
MessagePool == {M1, M2}

\* Payloads of history frames; <<M2, M1>> is ordered against the ids.
HistoryPayloads == { <<>>, <<M2, M1>> }

\* event.data of an inbound frame: JSON text of an object, or text that is
\* not JSON.
JsonText(obj) == [text |-> "json", data |-> obj]
NotJson == [text |-> "not json"]

Frames ==
  { JsonText([type |-> "history", messages |-> h]) : h \in HistoryPayloads }
  \cup { JsonText([type |-> "new_message", message |-> m]) : m \in MessagePool }
  \cup { JsonText([type |-> "user_joined", username |-> "bob"]),
         JsonText([type |-> "user_left", username |-> "bob"]),
         JsonText([type |-> "unknown"]),
         NotJson }

\* Frames with a tag of the protocol whose payload is missing.
IllTypedFrames ==
  { JsonText([type |-> "history"]), JsonText([type |-> "new_message"]) }

\* The stream of the second specification: the ill-typed frames among one
\* well-typed frame of each tag that writes the log.
FramesWithIllTyped ==
  IllTypedFrames
  \cup { JsonText([type |-> "history", messages |-> << M2, M1 >>]),
         JsonText([type |-> "new_message", message |-> M1]) }

\* The value undefined where a message is expected, and where the array of
\* messages is expected (written as a tuple, as every value of the log is).
Undefined == [undefined |-> TRUE]
UndefinedLog == << [notAnArray |-> TRUE] >>

(***************************************************************************)
(* State.                                                                  *)
(***************************************************************************)
VARIABLES
  username,      \* useState('')    line 14
  isJoined,      \* useState(false) line 15
  messages,      \* useState([])    line 16
  inputMessage,  \* useState('')    line 17
  socket,        \* useState(null)  line 18: 0 is null, else an index of ws
  isConnected,   \* useState(false) line 19
  jobs,          \* the joinChat invocations, in the order they were started
  ws,            \* the WebSocket objects, in the order they were created
  directory,     \* usernames registered in the user directory
  pendingClose,  \* socket whose error event fired and whose close event is due
  delivered,     \* event.data of every frame handed to an onmessage handler
  sent,          \* every call of socket.send that returned
  last           \* the handler that ran last, and its outcome

vars == << username, isJoined, messages, inputMessage, socket, isConnected,
           jobs, ws, directory, pendingClose, delivered, sent, last >>

ui == << username, isJoined, messages, inputMessage, socket, isConnected >>

(***************************************************************************)
(* String.prototype.trim: strips the whitespace at both ends.              *)
(***************************************************************************)
RECURSIVE trimStart(_)
trimStart(s) ==
  IF s # <<>> /\ Head(s) = " " THEN trimStart(Tail(s)) ELSE s

RECURSIVE trimEnd(_)
trimEnd(s) ==
  IF s # <<>> /\ s[Len(s)] = " " THEN trimEnd(SubSeq(s, 1, Len(s) - 1)) ELSE s

trim(s) == trimEnd(trimStart(s))

\* A string is truthy iff it is not empty.
truthy(s) == s # <<>>

(***************************************************************************)
(* JSON.parse and JSON.stringify.                                          *)
(***************************************************************************)
parses(raw) == raw.text = "json"

JSONparse(raw) == raw.data

JSONstringify(obj) == JsonText(obj)

(***************************************************************************)
(* Initial state: the component as constructed, nothing started.  The      *)
(* directory may or may not hold the name already.                         *)
(***************************************************************************)
Init ==
  /\ username = <<>>
  /\ isJoined = FALSE
  /\ messages = <<>>
  /\ inputMessage = <<>>
  /\ socket = 0
  /\ isConnected = FALSE
  /\ jobs = <<>>
  /\ ws = <<>>
  /\ directory \in SUBSET { <<"a">> }
  /\ pendingClose = 0
  /\ delivered = <<>>
  /\ sent = <<>>
  /\ last = "init"

\* No handler runs between a socket's error event and its close event: the
\* transport fires both in one task.
idle == pendingClose = 0

(***************************************************************************)
(* The join form (rendered while isJoined is false).                       *)
(***************************************************************************)
setUsername(s) ==
  /\ idle
  /\ ~isJoined
  /\ s # username
  /\ username' = s
  /\ last' = "setUsername"
  /\ UNCHANGED << isJoined, messages, inputMessage, socket, isConnected,
                  jobs, ws, directory, pendingClose, delivered, sent >>

\* Faulty variant of joinChat: the username is tested without trimming it.
joinChatUntrimmed ==
  /\ idle
  /\ ~isJoined
  /\ IF truthy(username)
       THEN /\ Len(jobs) < MaxJoins
            /\ jobs' = Append(jobs, [pc |-> "get", username |-> username,
                                     posted |-> FALSE])
            /\ last' = "joinChat.get"
       ELSE /\ jobs' = jobs
            /\ last' = "joinChat.rejected"
  /\ UNCHANGED << ui, ws, directory, pendingClose, delivered, sent >>

\* joinChat up to its first await: the form's submit handler.
joinChat ==
  /\ idle
  /\ ~isJoined
  /\ IF truthy(trim(username))
       THEN /\ Len(jobs) < MaxJoins
            /\ jobs' = Append(jobs, [pc |-> "get", username |-> username,
                                     posted |-> FALSE])
            /\ last' = "joinChat.get"
       ELSE /\ jobs' = jobs
            /\ last' = "joinChat.rejected"
  /\ UNCHANGED << ui, ws, directory, pendingClose, delivered, sent >>

\* connectWebSocket as called from the joinChat invocation j: the username
\* is the one that invocation closed over.
wsAddress(u) == [path |-> "/ws/", name |-> u]

connectWebSocket(j) ==
  /\ ws' = Append(ws, [readyState |-> "CONNECTING",
                       url |-> wsAddress(jobs[j].username)])
  /\ socket' = Len(ws) + 1

\* The answers the directory can give to GET /users/{name}.
getAnswers(name) ==
  (IF name \in directory THEN {"200"} ELSE {"404"}) \cup {"fault"}

\* The answers the directory can give to POST /users?username=name.
postAnswers(name) == {"200", "fault"}

\* Faulty variants of the continuation after `await axios.get`: a lookup
\* that succeeded is followed by a registration all the same, and any failed
\* lookup (not only a 404) is followed by a registration.
getResponseAlwaysPosts(j, r) ==
  /\ idle
  /\ j \in 1..Len(jobs)
  /\ jobs[j].pc = "get"
  /\ r \in getAnswers(trim(jobs[j].username))
  /\ IF r \in {"200", "404"}
       THEN /\ jobs' = [jobs EXCEPT ![j].pc = "post", ![j].posted = TRUE]
            /\ last' = "joinChat.post"
       ELSE /\ jobs' = [jobs EXCEPT ![j].pc = "failed"]
            /\ last' = "joinChat.failed"
  /\ UNCHANGED << ui, ws, directory, pendingClose, delivered, sent >>

getResponseAnyErrorPosts(j, r) ==
  /\ idle
  /\ j \in 1..Len(jobs)
  /\ jobs[j].pc = "get"
  /\ r \in getAnswers(trim(jobs[j].username))
  /\ IF r = "200"
       THEN /\ isJoined' = TRUE
            /\ connectWebSocket(j)
            /\ jobs' = [jobs EXCEPT ![j].pc = "done"]
            /\ last' = "joinChat.joined"
       ELSE /\ jobs' = [jobs EXCEPT ![j].pc = "post", ![j].posted = TRUE]
            /\ last' = "joinChat.post"
            /\ UNCHANGED << isJoined, ws, socket >>
  /\ UNCHANGED << username, messages, inputMessage, isConnected, directory,
                  pendingClose, delivered, sent >>

\* joinChat after `await axios.get`.
getResponse(j, r) ==
  /\ idle
  /\ j \in 1..Len(jobs)
  /\ jobs[j].pc = "get"
  /\ r \in getAnswers(trim(jobs[j].username))
  /\ CASE r = "200" ->
            /\ isJoined' = TRUE
            /\ connectWebSocket(j)
            /\ jobs' = [jobs EXCEPT ![j].pc = "done"]
            /\ last' = "joinChat.joined"
       [] r = "404" ->
            /\ jobs' = [jobs EXCEPT ![j].pc = "post", ![j].posted = TRUE]
            /\ last' = "joinChat.post"
            /\ UNCHANGED << isJoined, ws, socket >>
       [] OTHER ->
            /\ jobs' = [jobs EXCEPT ![j].pc = "failed"]
            /\ last' = "joinChat.failed"
            /\ UNCHANGED << isJoined, ws, socket >>
  /\ UNCHANGED << username, messages, inputMessage, isConnected, directory,
                  pendingClose, delivered, sent >>

\* Faulty variant of the continuation after `await axios.post`: the join
\* goes on whatever the registration answered.
postResponseFaultJoins(j, r) ==
  /\ idle
  /\ j \in 1..Len(jobs)
  /\ jobs[j].pc = "post"
  /\ r \in postAnswers(trim(jobs[j].username))
  /\ directory' = IF r = "200" THEN directory \cup { trim(jobs[j].username) }
                               ELSE directory
  /\ isJoined' = TRUE
  /\ connectWebSocket(j)
  /\ jobs' = [jobs EXCEPT ![j].pc = "done"]
  /\ last' = "joinChat.joined"
  /\ UNCHANGED << username, messages, inputMessage, isConnected,
                  pendingClose, delivered, sent >>

\* joinChat after `await axios.post` inside the catch block.
postResponse(j, r) ==
  /\ idle
  /\ j \in 1..Len(jobs)
  /\ jobs[j].pc = "post"
  /\ r \in postAnswers(trim(jobs[j].username))
  /\ IF r = "200"
       THEN /\ directory' = directory \cup { trim(jobs[j].username) }
            /\ isJoined' = TRUE
            /\ connectWebSocket(j)
            /\ jobs' = [jobs EXCEPT ![j].pc = "done"]
            /\ last' = "joinChat.joined"
       ELSE /\ jobs' = [jobs EXCEPT ![j].pc = "rejected"]
            /\ last' = "joinChat.threw"
            /\ UNCHANGED << directory, isJoined, ws, socket >>
  /\ UNCHANGED << username, messages, inputMessage, isConnected,
                  pendingClose, delivered, sent >>

(***************************************************************************)
(* The handlers connectWebSocket installs on socket i.                     *)
(***************************************************************************)
onopen(i) ==
  /\ idle
  /\ i \in 1..Len(ws)
  /\ ws[i].readyState = "CONNECTING"
  /\ ws' = [ws EXCEPT ![i].readyState = "OPEN"]
  /\ isConnected' = TRUE
  /\ last' = "onopen"
  /\ UNCHANGED << username, isJoined, messages, inputMessage, socket, jobs,
                  directory, pendingClose, delivered, sent >>

\* Faulty variants of the switch: a history frame appended to the log, and
\* a default case that empties the log.
switchTypeHistoryAppends(prev, data) ==
  CASE data.type = "history" -> prev \o data.messages
    [] data.type = "new_message" -> Append(prev, data.message)
    [] OTHER -> prev

switchTypeDefaultClears(prev, data) ==
  CASE data.type = "history" -> data.messages
    [] data.type = "new_message" -> Append(prev, data.message)
    [] data.type = "user_joined" -> prev
    [] data.type = "user_left" -> prev
    [] OTHER -> <<>>

\* Faulty variant of the switch: a new message is put in front of the log.
switchTypePrepends(prev, data) ==
  CASE data.type = "history" -> data.messages
    [] data.type = "new_message" -> << data.message >> \o prev
    [] OTHER -> prev

\* The switch of ws.onmessage: the log that setMessages leaves, given the
\* log before and the parsed frame.
\* data.messages and data.message: a property the object lacks reads as
\* undefined.
messagesOf(data) ==
  IF "messages" \in DOMAIN data THEN data.messages ELSE UndefinedLog

messageOf(data) ==
  IF "message" \in DOMAIN data THEN data.message ELSE Undefined

switchType(prev, data) ==
  CASE data.type = "history" -> messagesOf(data)
    [] data.type = "new_message" -> Append(prev, messageOf(data))
    [] data.type = "user_joined" -> prev
    [] data.type = "user_left" -> prev
    [] OTHER -> prev

onmessage(i, raw) ==
  /\ idle
  /\ i \in 1..Len(ws)
  /\ ws[i].readyState = "OPEN"
  /\ Len(delivered) < MaxFrames
  /\ delivered' = Append(delivered, raw)
  /\ IF parses(raw)
       THEN /\ messages' = switchType(messages, JSONparse(raw))
            /\ last' = "onmessage"
       ELSE \* JSON.parse throws SyntaxError, nothing catches it
            /\ messages' = messages
            /\ last' = "onmessage.threw"
  /\ UNCHANGED << username, isJoined, inputMessage, socket, isConnected,
                  jobs, ws, directory, pendingClose, sent >>

\* The transport failed: readyState becomes CLOSED, the error event fires,
\* and the close event is due.
onerror(i) ==
  /\ idle
  /\ i \in 1..Len(ws)
  /\ ws[i].readyState \in {"CONNECTING", "OPEN"}
  /\ ws' = [ws EXCEPT ![i].readyState = "CLOSED"]
  /\ pendingClose' = i
  /\ last' = "onerror"
  /\ UNCHANGED << ui, jobs, directory, delivered, sent >>

\* Faulty variant of onclose: the handler leaves isConnected as it is.
oncloseKeepsConnected(i) ==
  /\ i \in 1..Len(ws)
  /\ \/ pendingClose = i
     \/ idle /\ ws[i].readyState = "OPEN"
  /\ ws' = [ws EXCEPT ![i].readyState = "CLOSED"]
  /\ pendingClose' = 0
  /\ last' = IF pendingClose = i THEN "onclose.afterError" ELSE "onclose"
  /\ UNCHANGED << ui, jobs, directory, delivered, sent >>

\* The close event: after an error, or when an open connection ends.
onclose(i) ==
  /\ i \in 1..Len(ws)
  /\ \/ pendingClose = i
     \/ idle /\ ws[i].readyState = "OPEN"
  /\ ws' = [ws EXCEPT ![i].readyState = "CLOSED"]
  /\ pendingClose' = 0
  /\ isConnected' = FALSE
  /\ last' = IF pendingClose = i THEN "onclose.afterError" ELSE "onclose"
  /\ UNCHANGED << username, isJoined, messages, inputMessage, socket, jobs,
                  directory, delivered, sent >>

(***************************************************************************)
(* The chat view (rendered while isJoined is true).                        *)
(***************************************************************************)
\* The message field is disabled while isConnected is false.
setInputMessage(s) ==
  /\ idle
  /\ isJoined
  /\ isConnected
  /\ s # inputMessage
  /\ inputMessage' = s
  /\ last' = "setInputMessage"
  /\ UNCHANGED << username, isJoined, messages, socket, isConnected, jobs,
                  ws, directory, pendingClose, delivered, sent >>

\* Faulty variants of the condition: isConnected not consulted, and the
\* input not trimmed.
canSendIgnoresConnection == truthy(trim(inputMessage)) /\ socket # 0

canSendUntrimmed == truthy(inputMessage) /\ socket # 0 /\ isConnected

\* The condition of sendMessage's if.
canSend == truthy(trim(inputMessage)) /\ socket # 0 /\ isConnected

\* The argument of socket.send.
outboundFrame == JSONstringify([type |-> "message", content |-> trim(inputMessage)])

\* sendMessage, bound to the field's Enter key and to the Send button.  The
\* model lets it run in every state of the chat view, so that the condition
\* of line 93 decides, not the disabled attributes of the controls.
\* WebSocket.send throws InvalidStateError on a socket that is CONNECTING and
\* returns normally otherwise.
sendMessage ==
  /\ idle
  /\ isJoined
  /\ Len(sent) < MaxSent
  /\ CASE ~canSend ->
            /\ last' = "sendMessage.rejected"
            /\ UNCHANGED << sent, inputMessage >>
       [] canSend /\ ws[socket].readyState = "CONNECTING" ->
            /\ last' = "sendMessage.threw"
            /\ UNCHANGED << sent, inputMessage >>
       [] OTHER ->
            /\ sent' = Append(sent, [socket |-> socket,
                                     readyState |-> ws[socket].readyState,
                                     data |-> outboundFrame])
            /\ inputMessage' = <<>>
            /\ last' = "sendMessage.sent"
  /\ UNCHANGED << username, isJoined, messages, socket, isConnected, jobs,
                  ws, directory, pendingClose, delivered >>

(***************************************************************************)
(* The program.                                                            *)
(***************************************************************************)
Next ==
  \/ \E s \in SampleStrings : setUsername(s)
  \/ joinChat
  \/ \E j \in 1..MaxJoins : \E r \in {"200", "404", "fault"} : getResponse(j, r)
  \/ \E j \in 1..MaxJoins : \E r \in {"200", "fault"} : postResponse(j, r)
  \/ \E i \in 1..MaxJoins : onopen(i)
  \/ \E i \in 1..MaxJoins : \E raw \in Frames : onmessage(i, raw)
  \/ \E i \in 1..MaxJoins : onerror(i)
  \/ \E i \in 1..MaxJoins : onclose(i)
  \/ \E s \in SampleStrings : setInputMessage(s)
  \/ sendMessage

Spec == Init /\ [][Next]_vars

(***************************************************************************)
(* The program fed with ill-typed frames as well.  The chat view renders   *)
(* messages.map(...) and reads message.id, message.username, ... of every  *)
(* entry: on a log that is undefined or holds undefined the render throws, *)
(* React unmounts the component and its state is gone, so a run ends       *)
(* there.                                                                  *)
(***************************************************************************)
WellFormedMessage(m) == DOMAIN m = {"id", "username", "content", "timestamp"}

renders(log) == \A k \in 1..Len(log) : WellFormedMessage(log[k])

NextIllTyped ==
  \/ \E s \in SampleStrings : renders(messages) /\ setUsername(s)
  \/ renders(messages) /\ joinChat
  \/ \E j \in 1..MaxJoins : \E r \in {"200", "404", "fault"} :
       renders(messages) /\ getResponse(j, r)
  \/ \E j \in 1..MaxJoins : \E r \in {"200", "fault"} :
       renders(messages) /\ postResponse(j, r)
  \/ \E i \in 1..MaxJoins : renders(messages) /\ onopen(i)
  \/ \E i \in 1..MaxJoins : \E raw \in FramesWithIllTyped :
       renders(messages) /\ onmessage(i, raw)
  \/ \E i \in 1..MaxJoins : renders(messages) /\ onerror(i)
  \/ \E i \in 1..MaxJoins : renders(messages) /\ onclose(i)
  \/ \E s \in SampleStrings : renders(messages) /\ setInputMessage(s)
  \/ renders(messages) /\ sendMessage

SpecIllTyped == Init /\ [][NextIllTyped]_vars

(***************************************************************************)
(* Vocabulary of the properties.                                           *)
(***************************************************************************)
\* The frame parsed and carries the tag t.
HasTag(raw, t) == parses(raw) /\ JSONparse(raw).type = t

\* A malformed frame: not JSON, or JSON with a tag outside the protocol.
Malformed(raw) ==
  ~ \E t \in {"history", "new_message", "user_joined", "user_left"} : HasTag(raw, t)

\* Position of the last history frame of fs, 0 if there is none.
LastHistory(fs) ==
  LET H == { k \in 1..Len(fs) : HasTag(fs[k], "history") }
  IN  IF H = {} THEN 0 ELSE CHOOSE k \in H : \A m \in H : m <= k

\* The message payloads of the new_message frames of fs, in order.
RECURSIVE NewMessagesOf(_)
NewMessagesOf(fs) ==
  IF fs = <<>> THEN <<>>
  ELSE (IF HasTag(Head(fs), "new_message")
          THEN << JSONparse(Head(fs)).message >> ELSE <<>>)
       \o NewMessagesOf(Tail(fs))

\* Payload of the last history frame, then the new messages after it.
ExpectedLog(fs) ==
  LET k == LastHistory(fs)
  IN  (IF k = 0 THEN <<>> ELSE JSONparse(fs[k]).messages)
      \o NewMessagesOf(SubSeq(fs, k + 1, Len(fs)))

\* The step handed one more frame to an onmessage handler.
FrameStep == Len(delivered') = Len(delivered) + 1

(***************************************************************************)
(* C1.  After any sequence of inbound frames the log is the payload of the *)
(* last history frame (empty if none came) followed by the payloads of the *)
(* new_message frames after it, in arrival order; presence frames change   *)
(* nothing and a repeated history replaces the log.                        *)
(***************************************************************************)
C1_LogIsLastHistoryThenNewMessages == messages = ExpectedLog(delivered)

\* A second history arrived after a first, then a new message.
C1_Witness ==
  /\ Len(delivered) = 3
  /\ delivered[1] = JsonText([type |-> "history", messages |-> <<M2, M1>>])
  /\ delivered[2] = JsonText([type |-> "history", messages |-> <<M2, M1>>])
  /\ delivered[3] = JsonText([type |-> "new_message", message |-> M2])
  /\ messages = <<M2, M1, M2>>

(***************************************************************************)
(* C2.  A malformed frame (unknown tag, or not JSON) leaves the log as it  *)
(* is, and every valid frame handled after a malformed one still has its   *)
(* normal effect on the log.                                               *)
(***************************************************************************)
C2_MalformedFrameDropped ==
  [][ FrameStep =>
        LET raw == delivered'[Len(delivered')]
            afterMalformed == \E k \in 1..Len(delivered) : Malformed(delivered[k])
        IN  /\ Malformed(raw) => messages' = messages
            /\ afterMalformed /\ HasTag(raw, "history")
                 => messages' = JSONparse(raw).messages
            /\ afterMalformed /\ HasTag(raw, "new_message")
                 => messages' = Append(messages, JSONparse(raw).message)
            /\ afterMalformed /\ (HasTag(raw, "user_joined") \/ HasTag(raw, "user_left"))
                 => messages' = messages
    ]_vars

\* Text that is not JSON, then an unknown tag, then a new message that is
\* appended.
C2_Witness ==
  /\ Len(delivered) = 3
  /\ delivered[1] = NotJson
  /\ delivered[2] = JsonText([type |-> "unknown"])
  /\ delivered[3] = JsonText([type |-> "new_message", message |-> M1])
  /\ messages = <<M1>>

(***************************************************************************)
(* C3.  No handler lets an exception escape: no handler ends in an         *)
(* uncaught exception or a rejected promise.                               *)
(***************************************************************************)
C3_NoExceptionEscapes ==
  last \notin {"joinChat.threw", "onmessage.threw", "sendMessage.threw"}

(***************************************************************************)
(* C4.  Whenever sendMessage calls socket.send, the transport held in      *)
(* socket is open, so sendMessage never throws.                            *)
(***************************************************************************)
C4_SendOnlyOnOpenTransport ==
  [][ (sendMessage /\ canSend) =>
        /\ ws[socket].readyState = "OPEN"
        /\ last' # "sendMessage.threw" ]_vars

(***************************************************************************)
(* C5.  connectWebSocket creates at most one WebSocket in a session.       *)
(***************************************************************************)
C5_AtMostOneWebSocket == Len(ws) <= 1

(***************************************************************************)
(* C6.  A submit while isConnected is false is a no-op: nothing is sent,   *)
(* the log is unchanged and the input buffer is preserved.                 *)
(***************************************************************************)
C6_SubmitWhileNotConnectedIsNoOp ==
  [][ (sendMessage /\ ~isConnected) =>
        /\ sent' = sent
        /\ messages' = messages
        /\ inputMessage' = inputMessage
        /\ last' = "sendMessage.rejected" ]_vars

\* A text typed while connected was submitted after the connection closed,
\* and is still in the buffer.
C6_Witness ==
  /\ last = "sendMessage.rejected"
  /\ ~isConnected
  /\ inputMessage = <<" ", "a", " ">>

(***************************************************************************)
(* C7.  A submit of empty or whitespace-only content is a no-op in every   *)
(* connection state: nothing is sent, and neither the log nor the          *)
(* connection state changes.                                               *)
(***************************************************************************)
C7_BlankSubmitIsNoOp ==
  [][ (sendMessage /\ trim(inputMessage) = <<>>) =>
        /\ sent' = sent
        /\ messages' = messages
        /\ isConnected' = isConnected
        /\ ws' = ws
        /\ last' = "sendMessage.rejected" ]_vars

\* A whitespace-only text was submitted on an open connection.
C7_Witness ==
  /\ last = "sendMessage.rejected"
  /\ inputMessage = <<" ">>
  /\ isConnected
  /\ socket # 0
  /\ ws[socket].readyState = "OPEN"

(***************************************************************************)
(* C8.  A submit of content that is not blank while isConnected is true    *)
(* sends exactly one frame {type: "message", content: trimmed content},    *)
(* appends nothing to the log and leaves the input buffer empty.           *)
(***************************************************************************)
C8_SubmitSendsOneFrame ==
  [][ (sendMessage /\ trim(inputMessage) # <<>> /\ isConnected) =>
        /\ Len(sent') = Len(sent) + 1
        /\ sent'[Len(sent')].data =
             JsonText([type |-> "message", content |-> trim(inputMessage)])
        /\ messages' = messages
        /\ inputMessage' = <<>> ]_vars

C10_StaysDisconnectedAfterClose ==
  (idle /\ socket # 0 /\ ws[socket].readyState = "CLOSED") => ~isConnected

(***************************************************************************)
(* Vocabulary of the join properties.                                      *)
(***************************************************************************)
\* The step is the continuation of invocation j after its lookup answered.
LookupAnswered(j) == \E r \in {"200", "404", "fault"} : getResponse(j, r)

\* The step is the continuation of invocation j after its registration
\* answered.
RegistrationAnswered(j) == \E r \in {"200", "fault"} : postResponse(j, r)

\* The invocations that have issued POST /users.
Registrations == { j \in 1..Len(jobs) : jobs[j].posted }

(***************************************************************************)
(* C11.  When the directory already holds the username, joinChat issues    *)
(* the lookup only: no registration request follows and the directory is   *)
(* left as it is, also for a second join with the same name.               *)
(***************************************************************************)
C11_RegisteredNameIsNotRegisteredAgain ==
  [][ \A j \in 1..Len(jobs) :
        (LookupAnswered(j) /\ trim(jobs[j].username) \in directory) =>
          /\ jobs'[j].pc # "post"
          /\ ~jobs'[j].posted
          /\ directory' = directory ]_vars

\* Two joins with a registered name have both resolved by the lookup alone.
C11_Witness ==
  /\ Len(jobs) = 2
  /\ \A j \in 1..2 : jobs[j].pc = "done" /\ ~jobs[j].posted
  /\ directory = { <<"a">> }

(***************************************************************************)
(* C12.  A join with an empty or whitespace-only username is rejected      *)
(* locally: no lookup, no registration, no connection, isJoined stays      *)
(* false.                                                                  *)
(***************************************************************************)
C12_BlankUsernameRejected ==
  [][ (joinChat /\ trim(username) = <<>>) =>
        /\ jobs' = jobs
        /\ ws' = ws
        /\ socket' = socket
        /\ directory' = directory
        /\ ~isJoined' ]_vars

\* The form was submitted with a whitespace-only name.
C12_Witness ==
  /\ last = "joinChat.rejected"
  /\ username = <<" ">>
  /\ jobs = <<>>
  /\ ~isJoined

(***************************************************************************)
(* C13.  When the lookup or the registration fails for a reason other than *)
(* "not found", the join attempt ends there: it sets no isJoined, opens no *)
(* connection and issues no further request.                               *)
(***************************************************************************)
C13_DirectoryFaultAbortsJoin ==
  [][ \A j \in 1..Len(jobs) :
        /\ (getResponse(j, "fault") \/ postResponse(j, "fault")) =>
             /\ isJoined' = isJoined
             /\ ws' = ws
             /\ socket' = socket
             /\ jobs'[j].pc \in {"failed", "rejected"}
             /\ jobs'[j].posted = jobs[j].posted
             /\ Len(jobs') = Len(jobs)
        /\ jobs[j].pc \in {"failed", "rejected"} => jobs'[j] = jobs[j] ]_vars

\* One join ended at a failed lookup, another at a failed registration, and
\* the client has not joined.
C13_Witness ==
  /\ Len(jobs) = 2
  /\ jobs[1].pc = "failed"
  /\ jobs[2].pc = "rejected"
  /\ ~isJoined
  /\ ws = <<>>

(***************************************************************************)
(* C14.  As claimed: once a history frame has been handled, the previous   *)
(* log is a prefix of the next log in every step.                          *)
(***************************************************************************)
IsPrefix(s, u) == Len(s) <= Len(u) /\ SubSeq(u, 1, Len(s)) = s

C14_LogOnlyGrowsAfterFirstHistory ==
  [][ (\E k \in 1..Len(delivered) : HasTag(delivered[k], "history")) =>
        IsPrefix(messages, messages') ]_vars

(***************************************************************************)
(* C14, amended.  Every history frame replaces the log, the first and any  *)
(* later one; in every other step the previous log is a prefix of the next *)
(* log, so between two history frames the log is neither reordered nor     *)
(* truncated.                                                              *)
(***************************************************************************)
C14_LogOnlyGrowsBetweenHistories ==
  [][ \/ IsPrefix(messages, messages')
      \/ /\ FrameStep
         /\ HasTag(delivered'[Len(delivered')], "history")
         /\ messages' = JSONparse(delivered'[Len(delivered')]).messages ]_vars

\* A second history frame emptied the log of the first, and a new message
\* was appended after it.
C14_Witness ==
  /\ Len(delivered) = 3
  /\ delivered[1] = JsonText([type |-> "history", messages |-> <<M2, M1>>])
  /\ delivered[2] = JsonText([type |-> "history", messages |-> <<>>])
  /\ delivered[3] = JsonText([type |-> "new_message", message |-> M2])
  /\ messages = <<M2>>

(***************************************************************************)
(* C15.  The username in the address of every WebSocket is the trimmed     *)
(* username that joinChat looked up or registered in the directory.        *)
(***************************************************************************)
C15_AddressIsResolvedIdentity ==
  \A i \in 1..Len(ws) :
    /\ ws[i].url.name = trim(ws[i].url.name)
    /\ ws[i].url.name \in directory

(***************************************************************************)
(* C16.  A registration request is issued only when the lookup of that     *)
(* invocation answered 404; a WebSocket is created, and isJoined set, only *)
(* in the step in which a lookup or the registration after a 404 answered  *)
(* with success, for a name the directory then holds.                      *)
(***************************************************************************)
C16_JoinOrdering ==
  [][ /\ \A j \in 1..Len(jobs) :
           (j \in 1..Len(jobs') /\ jobs'[j].posted /\ ~jobs[j].posted) =>
             /\ getResponse(j, "404")
             /\ trim(jobs[j].username) \notin directory
      /\ \A j \in 1..Len(jobs') : j > Len(jobs) => ~jobs'[j].posted
      /\ (ws' # ws \/ socket' # socket \/ isJoined' # isJoined) =>
           \/ \E i \in 1..Len(ws) : onopen(i) \/ onerror(i) \/ onclose(i)
           \/ \E j \in 1..Len(jobs) :
                /\ getResponse(j, "200") \/ (jobs[j].posted /\ postResponse(j, "200"))
                /\ Len(ws') = Len(ws) + 1
                /\ trim(ws'[Len(ws')].url.name) \in directory'
                /\ isJoined'
    ]_vars

\* A name that the lookup did not find was registered, and the connection
\* was opened after the registration had answered.
C16_Witness ==
  /\ last = "joinChat.joined"
  /\ Len(jobs) = 1
  /\ jobs[1].pc = "done"
  /\ jobs[1].posted
  /\ Len(ws) = 1
  /\ isJoined

(***************************************************************************)
(* C17.  A frame with a tag of the protocol and a missing payload is       *)
(* dropped: in every reachable state the log is a sequence of well-formed  *)
(* Message records, and such a frame leaves the log unchanged.             *)
(***************************************************************************)
C17_IllTypedFrameDropped ==
  /\ \A k \in 1..Len(messages) : WellFormedMessage(messages[k])
  /\ (delivered # <<>> /\ delivered[Len(delivered)] \in IllTypedFrames) =>
       messages = ExpectedLog(SubSeq(delivered, 1, Len(delivered) - 1))

(***************************************************************************)
(* C18.  Whenever isConnected is true, isJoined is true, socket is not     *)
(* null and the transport held in socket is open.                          *)
(***************************************************************************)
C18_ConnectedDescribesSocket ==
  (idle /\ isConnected) =>
    /\ isJoined
    /\ socket # 0
    /\ ws[socket].readyState = "OPEN"

(***************************************************************************)
(* C19.  At most one registration request is issued for one username in a  *)
(* session.                                                                *)
(***************************************************************************)
C19_AtMostOneRegistration ==
  \A j, k \in Registrations :
    trim(jobs[j].username) = trim(jobs[k].username) => j = k

====
